---------------------------- MODULE Spec2Model ----------------------------
(***************************************************************************)
(* Model of the surveillance pipeline of src/main.py:                      *)
(*   DetectionDatabase      the queue-fed event log and its writer thread  *)
(*   FaceRecognitionSystem  frame_grabber, face_analyzer and the throttle, *)
(*                          startup and the catalog cache, the threads of  *)
(*                          run() with their locks and the shutdown flag   *)
(* and of the enrollment tool of src/enrollment.py (ManualEnrollmentApp).  *)
(*                                                                         *)
(* The clock counts whole seconds.  Distances are counted in tenths, so    *)
(* the acceptance threshold 0.5 of line 215 is 5.  The results of the      *)
(* external vision calls (cv2 motion chain, face_recognition) are inputs   *)
(* of the analysis step.                                                   *)
(***************************************************************************)
EXTENDS Integers, Sequences, FiniteSets, TLC

VARIABLES
    now,                \* the wall clock, time.time() / datetime.now()
    latest_frame,       \* self.latest_frame (None or a frame)
    an_pc,              \* position of face_analyzer
    local_frame,        \* face_analyzer's local_frame
    avg_frame,          \* face_analyzer's avg_frame
    latest_results,     \* self.latest_results = (locs, names)
    last_seen,          \* self.last_seen
    last_unknown_time,  \* self.last_unknown_time
    last_motion_time,   \* self.last_motion_time
    known_encodings,    \* self.known_encodings
    known_names,        \* self.known_names
    evidence,           \* images written by cv2.imwrite into unknown_dir
    log_queue,          \* DetectionDatabase.log_queue
    ncalls,             \* number of log_entry calls made so far
    w_pc,               \* position of the writer thread in _process_queue
    w_item,             \* the writer's local item
    table,              \* rows of the detections table, in id order
    db_ok,              \* whether the sqlite store accepts a write right now
    attempts,           \* history: every INSERT tried, in order, with its outcome
    cycle,              \* history: what the last iteration of face_analyzer did
    sightings,          \* history: <<name, time>> of the watched names' sightings
    probe,              \* a face encoding handed to the matcher
    assigned            \* the name the matcher gave to probe

VARIABLES
    rtsp_url,           \* os.getenv("RTSP_URL"): "" when it is not set
    cache_file,         \* the file face_signatures.pkl
    faces_dir,          \* the reference-image tree KNOWN_FACES_DIR
    can_mkdir,          \* whether os.makedirs(unknown_dir) can succeed
    can_write_cache,    \* whether face_signatures.pkl can be opened for writing
    boot_pc,            \* position of __main__ / FaceRecognitionSystem.__init__
    writer_started,     \* whether DetectionDatabase started its writer thread
    boot_cache,         \* history: face_signatures.pkl as it was at startup
    built               \* history: the caches _rebuild_database wrote, in order

VARIABLES
    shutdown_event,     \* self.shutdown_event.is_set()
    frame_lock,         \* the holder of self.frame_lock, or "free"
    results_lock,       \* the holder of self.results_lock, or "free"
    g_pc,               \* position of frame_grabber
    g_frame,            \* frame_grabber's frame (NoFrame when ret is false)
    g_fails,            \* history: consecutive failed reads, counted up to MaxFails
    a_results,          \* the (locs, names) face_analyzer is about to publish
    d_pc,               \* position of the display loop of run()
    display_frame,      \* run()'s display_frame
    d_results,          \* run()'s (locs, names)
    published           \* history: every value written to latest_results

VARIABLES
    e_entry,            \* enrollment: the text of name_entry
    e_count,            \* enrollment: self.count
    e_snap,             \* enrollment: state of btn_snap ("normal" / "disabled")
    can_remove,         \* whether os.remove(PICKLE_PATH) can succeed
    ref_written         \* history: the reference images the session has written

vars == << now, latest_frame, an_pc, local_frame, avg_frame,
           latest_results, last_seen, last_unknown_time, last_motion_time,
           known_encodings, known_names, evidence, log_queue, ncalls,
           w_pc, w_item, table, db_ok, attempts, cycle, sightings,
           probe, assigned,
           rtsp_url, cache_file, faces_dir, can_mkdir, can_write_cache,
           boot_pc, writer_started, boot_cache, built,
           shutdown_event, frame_lock, results_lock, g_pc, g_frame, g_fails,
           a_results, d_pc, display_frame, d_results, published,
           e_entry, e_count, e_snap, can_remove, ref_written >>

startupVars == << rtsp_url, cache_file, faces_dir, can_mkdir, can_write_cache,
                  boot_pc, writer_started, boot_cache, built >>

\* The variables of the parts of the program other than the pipeline, the
\* event log and the matcher.
threadVars == << shutdown_event, frame_lock, results_lock, g_pc, g_frame,
                 g_fails, a_results, d_pc, display_frame, d_results, published >>

enrollVars == << e_entry, e_count, e_snap, can_remove, ref_written >>

otherVars == << startupVars, threadVars, enrollVars >>

pipelineVars == << latest_frame, an_pc, local_frame, avg_frame,
                   latest_results, last_seen, last_unknown_time,
                   last_motion_time, evidence, cycle, sightings >>

catalogVars == << known_encodings, known_names >>

writerVars == << w_pc, w_item, table, attempts >>

matchVars == << probe, assigned >>

-----------------------------------------------------------------------------
(* Program constants *)

log_cooldown == 30

unknown_capture_cooldown == 300

ResultsClearAfter == 3

MatchThreshold == 5

(* Bounds of the model *)

MaxFaces == 2

MaxCalls == 3

MaxDist == 6

MaxSigs == 2

\* How many times _rebuild_database is run on one tree.
MaxRebuilds == 2

\* Up to how many consecutive failed reads are told apart.
MaxFails == 2

ClockStart == 1000

None == "None"

\* latest_frame is None / item is None / an empty dict
NoFrame == [id |-> 0, res |-> None]

NoItem == [name |-> None, timestamp |-> 0, status |-> None, call |-> 0]

EmptyDict == [n \in {} |-> 0]

Unknown == "Unknown"

Names == {"alice", "bob"}

EmptyResults == << <<>>, <<>> >>


SeqsUpTo(S, n) == UNION {[1..k -> S] : k \in 0..n}

Dist == 0..MaxDist

SigIds == 1..MaxSigs

-----------------------------------------------------------------------------
(* IdentityMatcher: lines 210-218 of face_analyzer *)

\* face_recognition.face_distance(known_encodings, enc): one distance per
\* catalog signature, in catalog order.  An encoding is modelled by its
\* distance to every signature.
face_distance(encodings, enc) == [i \in 1..Len(encodings) |-> enc[encodings[i]]]

\* np.argmin: the first index holding the minimum.
argmin(dists) ==
    CHOOSE i \in 1..Len(dists) :
        /\ \A j \in 1..Len(dists) : dists[i] <= dists[j]
        /\ \A j \in 1..(i - 1) : dists[j] > dists[i]

\* Mutant: a distance equal to the threshold is accepted.
MUT_AcceptsAtThreshold(d) == d <= MatchThreshold

\* The acceptance test of line 215.
Accepts(d) == d < MatchThreshold

\* Lines 211-216: the name given to one encoding.
Classify(encodings, names, enc) ==
    IF encodings = <<>>
    THEN Unknown
    ELSE LET dists == face_distance(encodings, enc)
             best_idx == argmin(dists)
         IN  IF Accepts(dists[best_idx]) THEN names[best_idx] ELSE Unknown

-----------------------------------------------------------------------------
(* DetectionDatabase *)

\* The tuple log_entry puts on the queue (lines 51-52).  The field call
\* numbers the log_entry calls; it is not stored, it only tells two equal
\* tuples apart.
Item(name, t, status, n) ==
    [name |-> name, timestamp |-> t, status |-> status, call |-> n]

\* log_entry (lines 49-52) on a queue q, as call number n + 1 made at time t:
\* queue.Queue() is unbounded, so put() neither blocks nor raises.
log_entry(q, n, t, name, status) == Append(q, Item(name, t, status, n + 1))

\* Whether put() would block: queue.Queue() of line 28 has no maxsize.
QueueFull(q) == FALSE

\* Mutant: the writer takes the newest item first.
MUT_QueueGetNewest(q) == [item |-> q[Len(q)], rest |-> SubSeq(q, 1, Len(q) - 1)]

\* log_queue.get() (line 57) on a non-empty queue.Queue (FIFO): the oldest
\* item and the queue without it.
QueueGet(q) == [item |-> Head(q), rest |-> Tail(q)]

\* Mutant: sqlite3.Error escapes the loop and ends the writer thread.
MUT_DiesOnError == "dead"

\* Where the writer goes after an INSERT that raised sqlite3.Error: the
\* except clause of lines 66-67 logs it and the loop goes on.
AfterFailedInsert == "get"

\* Mutant: an item whose INSERT failed is put back on the queue.
MUT_RetryOnError(q, item) == Append(q, item)

\* The queue after an INSERT of item that raised sqlite3.Error: the error is
\* logged (line 67) and the item is not put back.
OnInsertError(q, item) == q

\* The INSERT of lines 61-65: the row gets the next autoincrement id, which
\* is its position in the table.
Insert(rows, item) == Append(rows, item)

-----------------------------------------------------------------------------
(* AlertThrottle: lines 220-229 and _save_unknown_face.  One iteration of  *)
(* face_analyzer threads a record st through these steps:                  *)
(*   seen, unknown_time, motion_time   the cooldown state                  *)
(*   queue, calls                      log_queue and the log_entry count   *)
(*   names, found                      current_names, found_unknown        *)
(*   imwrites                          images handed to cv2.imwrite        *)
(*   files                             the evidence directory              *)
(*   pubs                              values assigned to latest_results   *)
(***************************************************************************)

\* cv2.resize(local_frame, fx=0.25, fy=0.25) of line 201.
Resize(frame) == [frame EXCEPT !.res = "quarter"]

\* Mutant: the cooldown counts as over at exactly log_cooldown seconds.
MUT_CooldownAtLeast(seen, name, t) ==
    name \notin DOMAIN seen \/ (t - seen[name]) >= log_cooldown

\* The cooldown test of line 221.
CooldownElapsed(seen, name, t) ==
    name \notin DOMAIN seen \/ (t - seen[name]) > log_cooldown

\* self.last_seen[name] = t
Put(seen, name, t) ==
    [n \in DOMAIN seen \cup {name} |-> IF n = name THEN t ELSE seen[n]]

\* A line written by the logging module (lines 18-22): level and text.
LogLine(level, text) == [level |-> level, text |-> text]

\* Mutant: the cooldown entry is refreshed by every sighting.
MUT_SightKnownRefresh(st, name, t) ==
    IF CooldownElapsed(st.seen, name, t)
    THEN [st EXCEPT !.queue = log_entry(st.queue, st.calls, t, name, "Recognized"),
                    !.calls = @ + 1,
                    !.msgs = Append(@, LogLine("info", "MATCH")),
                    !.seen = Put(st.seen, name, t)]
    ELSE [st EXCEPT !.seen = Put(st.seen, name, t)]

\* Lines 221-224: a face that matched a catalog name.
SightKnown(st, name, t) ==
    IF CooldownElapsed(st.seen, name, t)
    THEN [st EXCEPT !.queue = log_entry(st.queue, st.calls, t, name, "Recognized"),
                    !.calls = @ + 1,
                    !.msgs = Append(@, LogLine("info", "MATCH")),
                    !.seen = Put(st.seen, name, t)]
    ELSE st

\* Mutant: every unmatched face is captured on the spot, face by face.
MUT_SightUnknownCapture(st, frame, t) ==
    [st EXCEPT
        !.found = TRUE,
        !.imwrites = Append(@, [image |-> frame, ok |-> TRUE]),
        !.files = {f \in @ : f.name # t} \cup {[name |-> t, image |-> frame]},
        !.queue = log_entry(st.queue, st.calls, t, "Unknown Stranger", "Captured"),
        !.calls = @ + 1,
        !.unknown_time = t]

\* Lines 225-226: a face that matched nothing.
SightUnknown(st, frame, t) == [st EXCEPT !.found = TRUE]

\* Mutant: a capture is due at exactly unknown_capture_cooldown seconds.
MUT_CaptureAtLeast(last, t) == (t - last) >= unknown_capture_cooldown

\* The capture test of line 152.
CaptureDue(last, t) == (t - last) > unknown_capture_cooldown

\* _save_unknown_face (lines 150-158); wrote is whether cv2.imwrite stored
\* the file (its return value, which line 155 does not look at).  The file
\* name carries the timestamp, so a second write in the same second
\* replaces the first.
save_unknown_face(st, frame, t, wrote) ==
    IF CaptureDue(st.unknown_time, t)
    THEN [st EXCEPT
            !.imwrites = Append(@, [image |-> frame, ok |-> wrote]),
            !.files = IF wrote
                      THEN {f \in @ : f.name # t} \cup {[name |-> t, image |-> frame]}
                      ELSE @,
            !.queue = log_entry(st.queue, st.calls, t, "Unknown Stranger", "Captured"),
            !.calls = @ + 1,
            !.msgs = Append(@, LogLine("warning", "SECURITY ALERT: Unknown face saved")),
            !.unknown_time = t]
    ELSE st

\* Lines 210-226: the loop over the encodings found in the frame.
RECURSIVE ForEachEnc(_, _, _, _, _)
ForEachEnc(st, encs, i, frame, t) ==
    IF i > Len(encs)
    THEN st
    ELSE LET name == Classify(known_encodings, known_names, encs[i])
             st1 == [st EXCEPT !.names = Append(@, name)]
             st2 == IF name # Unknown
                    THEN SightKnown(st1, name, t)
                    ELSE SightUnknown(st1, frame, t)
         IN  ForEachEnc(st2, encs, i + 1, frame, t)

\* Lines 228-229.
AfterLoop(st, frame, t, wrote) ==
    IF st.found THEN save_unknown_face(st, frame, t, wrote) ELSE st

\* Mutant: the new detections are added to the published ones.
MUT_PublishAccumulate(st, value) ==
    [st EXCEPT !.pubs = Append(@, << latest_results[1] \o value[1],
                                    latest_results[2] \o value[2] >>)]

\* with self.results_lock: self.latest_results = value  (lines 231-232, 235-236)
Publish(st, value) == [st EXCEPT !.pubs = Append(@, value)]

\* The state an iteration starts from.
CycleStart ==
    [seen |-> last_seen, unknown_time |-> last_unknown_time,
     motion_time |-> last_motion_time, queue |-> log_queue, calls |-> ncalls,
     names |-> <<>>, found |-> FALSE, imwrites |-> <<>>, files |-> evidence,
     pubs |-> <<>>, msgs |-> <<>>]

\* Lines 200-232: the branch taken when a contour exceeds motion_threshold.
\* faces is what face_locations / face_encodings return for the frame.
ActiveBranch(faces, frame, t, wrote) ==
    LET st0  == [CycleStart EXCEPT !.motion_time = t]
        encs == [i \in 1..Len(faces) |-> faces[i].enc]
        locs == [i \in 1..Len(faces) |-> faces[i].loc]
        st1  == ForEachEnc(st0, encs, 1, frame, t)
        st2  == AfterLoop(st1, frame, t, wrote)
    IN  Publish(st2, <<locs, st2.names>>)

\* Mutant: the results are cleared as soon as 3 seconds have passed.
MUT_IdleClearAtLeast(t) ==
    IF (t - last_motion_time) >= ResultsClearAfter
    THEN Publish(CycleStart, EmptyResults)
    ELSE CycleStart

\* Lines 233-236: the branch taken when no contour is large enough.
IdleBranch(t) ==
    IF (t - last_motion_time) > ResultsClearAfter
    THEN Publish(CycleStart, EmptyResults)
    ELSE CycleStart

-----------------------------------------------------------------------------
(* Inputs *)

\* The running average of the frames seen so far (lines 190, 193).
Background == [id |-> 0, res |-> "average"]

\* A decoded frame, as cap.read() returns it.
Frame(k) == [id |-> k, res |-> "full"]

\* An encoding at distance d of signature s and far from every other one.
EncNear(s, d) == [x \in SigIds |-> IF x = s THEN d ELSE MaxDist]

\* The faces a frame may show: close to signature 1 (alice), close to
\* signature 2 (bob), exactly at the acceptance threshold of signature 1,
\* and far from every signature.
FaceAlice == [loc |-> "box1", enc |-> EncNear(1, 2)]

FaceBob == [loc |-> "box2", enc |-> EncNear(2, 4)]

FaceEdge == [loc |-> "box3", enc |-> EncNear(1, MatchThreshold)]

FaceFar == [loc |-> "box4", enc |-> EncNear(1, MaxDist)]

NoCycle ==
    [kind |-> "none", frame |-> NoFrame, t |-> 0, names |-> <<>>, logs |-> <<>>,
     imwrites |-> <<>>, pubs |-> <<>>, before |-> EmptyResults, msgs |-> <<>>]

\* What an iteration that started from CycleStart and ended in st did, and
\* the results that were published when it started.
CycleRecord(kind, frame, t, st) ==
    [kind |-> kind, frame |-> frame, t |-> t, names |-> st.names,
     logs |-> SubSeq(st.queue, Len(log_queue) + 1, Len(st.queue)),
     imwrites |-> st.imwrites, pubs |-> st.pubs, before |-> latest_results,
     msgs |-> st.msgs]

-----------------------------------------------------------------------------
(* Initial state: FaceRecognitionSystem.__init__ (lines 72-105) has run,   *)
(* the catalog is loaded and DetectionDatabase has started its writer.     *)

InitPipeline ==
    /\ now = ClockStart
    /\ latest_frame = NoFrame
    /\ an_pc = "copy"
    /\ local_frame = NoFrame
    /\ avg_frame = NoFrame
    /\ latest_results = EmptyResults
    /\ last_seen = EmptyDict
    /\ last_unknown_time = 0
    /\ last_motion_time = 0
    /\ evidence = {}
    /\ cycle = NoCycle
    /\ sightings = {}

InitLog ==
    /\ log_queue = << >>
    /\ ncalls = 0
    /\ w_pc = "get"
    /\ w_item = NoItem
    /\ table = << >>
    /\ db_ok = TRUE
    /\ attempts = << >>

InitMatch ==
    /\ probe = EncNear(1, MaxDist)
    /\ assigned = None


-----------------------------------------------------------------------------
(* The clock *)

\* Time passes: the clock moves on to a later one of the instants (seconds
\* after the first reading) at which the run is observed.
Tick(instants) ==
    \E i \in instants :
        /\ ClockStart + i > now
        /\ now' = ClockStart + i
        /\ UNCHANGED << otherVars, pipelineVars, catalogVars, writerVars, matchVars,
                        log_queue, ncalls, db_ok >>

-----------------------------------------------------------------------------
(* frame_grabber (lines 160-172) *)

\* cap.read() returned a frame: it replaces the slot under frame_lock.
GrabFrame(scenes) ==
    /\ \E k \in scenes : latest_frame' = Frame(k)
    /\ UNCHANGED << otherVars, now, an_pc, local_frame, avg_frame, latest_results,
                    last_seen, last_unknown_time, last_motion_time, evidence,
                    cycle, sightings, catalogVars, writerVars, matchVars,
                    log_queue, ncalls, db_ok >>

\* cap.read() failed: release, sleep, reconnect; the slot is not touched.
GrabRetry ==
    /\ UNCHANGED vars

-----------------------------------------------------------------------------
(* face_analyzer (lines 174-238) *)

\* Lines 177-184: copy the slot under frame_lock; poll again when it is empty.
AnalyzerCopy ==
    /\ an_pc = "copy"
    /\ IF latest_frame = NoFrame
       THEN /\ local_frame' = NoFrame
            /\ an_pc' = "copy"
       ELSE /\ local_frame' = latest_frame
            /\ an_pc' = "analyze"
    /\ UNCHANGED << otherVars, now, latest_frame, avg_frame,
                    latest_results, last_seen, last_unknown_time,
                    last_motion_time, evidence, cycle, sightings, catalogVars,
                    writerVars, matchVars, log_queue, ncalls, db_ok >>

\* Lines 189-191: the first frame only initialises the background model.
AnalyzerFirst ==
    /\ an_pc = "analyze"
    /\ avg_frame = NoFrame
    /\ avg_frame' = Background
    /\ an_pc' = "copy"
    /\ cycle' = CycleRecord("first", local_frame, now, CycleStart)
    /\ UNCHANGED << otherVars, now, latest_frame, local_frame,
                    latest_results, last_seen, last_unknown_time,
                    last_motion_time, evidence, sightings, catalogVars,
                    writerVars, matchVars, log_queue, ncalls, db_ok >>

\* The assignments an iteration that ended in st makes.
Commit(kind, st, watch) ==
    /\ sightings' = sightings \cup
           {<<st.names[i], now>> : i \in {j \in DOMAIN st.names : st.names[j] \in watch}}
    /\ last_seen' = st.seen
    /\ last_unknown_time' = st.unknown_time
    /\ last_motion_time' = st.motion_time
    /\ log_queue' = st.queue
    /\ ncalls' = st.calls
    /\ evidence' = st.files
    /\ latest_results' = IF st.pubs = << >> THEN latest_results
                         ELSE st.pubs[Len(st.pubs)]
    /\ cycle' = CycleRecord(kind, local_frame, now, st)
    /\ avg_frame' = Background
    /\ an_pc' = "copy"
    /\ UNCHANGED << otherVars, now, latest_frame, local_frame,
                    catalogVars, writerVars, matchVars, db_ok >>

\* Lines 193-232 and 238: motion was found in the frame.
AnalyzerActive(frames, watch) ==
    /\ an_pc = "analyze"
    /\ avg_frame # NoFrame
    /\ \E faces \in frames, wrote \in BOOLEAN :
           Commit("active", ActiveBranch(faces, local_frame, now, wrote), watch)

\* Lines 193-199 and 233-238: no motion was found in the frame.
AnalyzerIdle ==
    /\ an_pc = "analyze"
    /\ avg_frame # NoFrame
    /\ Commit("idle", IdleBranch(now), {})

-----------------------------------------------------------------------------
(* DetectionDatabase: callers and the writer thread *)

\* A call of log_entry (lines 49-52) from either call site (lines 156, 222).
LogCall ==
    \E name \in Names \cup {"Unknown Stranger"} :
        /\ ncalls < MaxCalls
        /\ ~QueueFull(log_queue)
        /\ log_queue' = log_entry(log_queue, ncalls, now, name,
                            IF name = "Unknown Stranger" THEN "Captured"
                            ELSE "Recognized")
        /\ ncalls' = ncalls + 1
        /\ UNCHANGED << otherVars, now, pipelineVars, catalogVars, writerVars,
                        matchVars, db_ok >>

\* Lines 57-59: block on the queue, take the oldest item.
WriterGet ==
    /\ w_pc = "get"
    /\ log_queue # << >>
    /\ w_item' = QueueGet(log_queue).item
    /\ log_queue' = QueueGet(log_queue).rest
    /\ w_pc' = IF QueueGet(log_queue).item = NoItem THEN "stopped" ELSE "insert"
    /\ UNCHANGED << otherVars, now, pipelineVars, catalogVars, matchVars,
                    ncalls, table, db_ok, attempts >>

\* Lines 60-69: the INSERT; sqlite3.Error is caught and logged.
WriterInsert ==
    /\ w_pc = "insert"
    /\ IF db_ok
       THEN /\ table' = Insert(table, w_item)
            /\ w_pc' = "get"
            /\ log_queue' = log_queue
       ELSE /\ table' = table
            /\ w_pc' = AfterFailedInsert
            /\ log_queue' = OnInsertError(log_queue, w_item)
    /\ attempts' = Append(attempts, [item |-> w_item, ok |-> db_ok, at |-> now])
    /\ w_item' = NoItem
    /\ UNCHANGED << otherVars, now, pipelineVars, catalogVars, matchVars, ncalls, db_ok >>

\* The store becomes unavailable (locked, unwritable) or available again.
StoreFlip ==
    /\ db_ok' = ~db_ok
    /\ UNCHANGED << otherVars, now, pipelineVars, catalogVars, writerVars,
                    matchVars, log_queue, ncalls >>

-----------------------------------------------------------------------------
(* Startup: __main__ (lines 270-274), FaceRecognitionSystem.__init__       *)
(* (lines 72-105), _initialize_signatures and _rebuild_database.           *)

\* The file face_signatures.pkl: absent, bytes pickle cannot load, or a
\* pickled dict holding some of the keys "encodings" and "names".
NoFile == [kind |-> "absent", keys |-> {}, encodings |-> << >>, names |-> << >>]

Garbage == [kind |-> "garbage", keys |-> {}, encodings |-> << >>, names |-> << >>]

Pickled(keys, encodings, names) ==
    [kind |-> "dict", keys |-> keys,
     encodings |-> IF "encodings" \in keys THEN encodings ELSE << >>,
     names |-> IF "names" \in keys THEN names ELSE << >>]

\* pickle.dump({"encodings": ..., "names": ...}, f)  (lines 146-147)
Dump(encodings, names) == Pickled({"encodings", "names"}, encodings, names)

\* One file of the reference tree: faces_dir/person/file.  isdir tells
\* whether faces_dir/person is a directory, image whether the file name ends
\* in .jpg, .jpeg or .png; sig is the signature face_encodings finds in it
\* (0: no face, or loading the image raised).
RefFile(person, isdir, file, image, sig) ==
    [person |-> person, isdir |-> isdir, file |-> file, image |-> image, sig |-> sig]

RefEntries ==
    { RefFile("alice", TRUE, "alice_0.jpg", TRUE, 1),
      RefFile("alice", TRUE, "alice_1.PNG", TRUE, 2),
      RefFile("bob", TRUE, "bob_0.jpeg", TRUE, 2),
      RefFile("bob", TRUE, "blank.jpg", TRUE, 0),
      RefFile("bob", TRUE, "notes.txt", FALSE, 0),
      RefFile("readme", FALSE, "", FALSE, 0) }

NoDir == [exists |-> FALSE, entries |-> {}]

Dir(entries) == [exists |-> TRUE, entries |-> entries]

RECURSIVE Perms(_)
Perms(S) ==
    IF S = {} THEN { << >> }
    ELSE UNION { { <<x>> \o p : p \in Perms(S \ {x}) } : x \in S }

\* The orders in which the two nested os.listdir loops (lines 131, 135) can
\* visit the files: any order of the persons, any order within a person.
Scans(entries) ==
    { s \in Perms(entries) :
        \A i, j, k \in DOMAIN s :
            (i < j /\ j < k /\ s[i].person = s[k].person) => s[j].person = s[i].person }

\* Mutant: the result lists are started afresh for every person directory.
MUT_RebuildEntryPerPerson(acc, e) ==
    IF ~e.isdir \/ ~e.image \/ e.sig = 0
    THEN acc
    ELSE IF acc.names # << >> /\ acc.names[Len(acc.names)] # e.person
         THEN [encodings |-> <<e.sig>>, names |-> <<e.person>>]
         ELSE [encodings |-> Append(acc.encodings, e.sig),
               names |-> Append(acc.names, e.person)]

\* Lines 132-143: what one visited file adds to new_encodings / new_names.
RebuildEntry(acc, e) ==
    IF ~e.isdir THEN acc
    ELSE IF ~e.image THEN acc
    ELSE IF e.sig = 0 THEN acc
    ELSE [encodings |-> Append(acc.encodings, e.sig),
          names |-> Append(acc.names, e.person)]

\* Lines 129-143: the two loops over a scan.
RECURSIVE RebuildScan(_, _)
RebuildScan(acc, scan) ==
    IF scan = << >> THEN acc
    ELSE RebuildScan(RebuildEntry(acc, Head(scan)), Tail(scan))

\* _rebuild_database (lines 122-148) from catalog cat: the catalog and the
\* cache file it leaves, whether it wrote the cache, whether it raised.
rebuild_database(cat, file, dir, scan, writable) ==
    IF ~dir.exists
    THEN [encodings |-> cat.encodings, names |-> cat.names, cache |-> file,
          wrote |-> FALSE, raised |-> FALSE]
    ELSE LET new == RebuildScan([encodings |-> << >>, names |-> << >>], scan)
         IN  [encodings |-> new.encodings, names |-> new.names,
              cache |-> IF writable THEN Dump(new.encodings, new.names) ELSE file,
              wrote |-> writable, raised |-> ~writable]

\* Lines 109-118: the try block.  pickle.load raises on bytes it cannot
\* load; data["encodings"] is assigned before data["names"] is looked up.
LoadCache(cat, file) ==
    IF file.kind = "garbage" \/ "encodings" \notin file.keys
    THEN [loaded |-> FALSE, encodings |-> cat.encodings, names |-> cat.names]
    ELSE IF "names" \notin file.keys
    THEN [loaded |-> FALSE, encodings |-> file.encodings, names |-> cat.names]
    ELSE [loaded |-> TRUE, encodings |-> file.encodings, names |-> file.names]

\* _initialize_signatures (lines 107-120).
initialize_signatures(cat, file, dir, scan, writable) ==
    IF file.kind = "absent"
    THEN rebuild_database(cat, file, dir, scan, writable)
    ELSE LET got == LoadCache(cat, file)
         IN  IF got.loaded
             THEN [encodings |-> got.encodings, names |-> got.names,
                   cache |-> file, wrote |-> FALSE, raised |-> FALSE]
             ELSE rebuild_database([encodings |-> got.encodings, names |-> got.names],
                                   file, dir, scan, writable)

\* Lines 75-82: the configuration is read; a missing RTSP_URL raises.
BootConfig ==
    /\ boot_pc = "config"
    /\ boot_pc' = IF rtsp_url = "" THEN "raised" ELSE "db"
    /\ UNCHANGED << threadVars, enrollVars, now, pipelineVars, catalogVars, writerVars, matchVars,
                    log_queue, ncalls, db_ok, rtsp_url, cache_file, faces_dir,
                    can_mkdir, can_write_cache, writer_started, boot_cache, built >>

\* Line 99, DetectionDatabase.__init__ (lines 26-33): _create_table logs a
\* failure of the store and goes on; the writer thread is started.
BootDatabase ==
    /\ boot_pc = "db"
    /\ writer_started' = TRUE
    /\ boot_pc' = "makedirs"
    /\ UNCHANGED << threadVars, enrollVars, now, pipelineVars, catalogVars, writerVars, matchVars,
                    log_queue, ncalls, db_ok, rtsp_url, cache_file, faces_dir,
                    can_mkdir, can_write_cache, boot_cache, built >>

\* Line 103: os.makedirs(unknown_dir, exist_ok=True); an OSError is not caught.
BootMakedirs ==
    /\ boot_pc = "makedirs"
    /\ boot_pc' = IF can_mkdir THEN "signatures" ELSE "raised"
    /\ UNCHANGED << threadVars, enrollVars, now, pipelineVars, catalogVars, writerVars, matchVars,
                    log_queue, ncalls, db_ok, rtsp_url, cache_file, faces_dir,
                    can_mkdir, can_write_cache, writer_started, boot_cache, built >>

\* The assignments a call that ended in r makes.
CatalogResult(r) ==
    /\ known_encodings' = r.encodings
    /\ known_names' = r.names
    /\ cache_file' = r.cache
    /\ built' = IF r.wrote THEN Append(built, r.cache) ELSE built

\* Line 104: _initialize_signatures().
BootSignatures ==
    /\ boot_pc = "signatures"
    /\ \E scan \in Scans(faces_dir.entries) :
           LET r == initialize_signatures(
                        [encodings |-> known_encodings, names |-> known_names],
                        cache_file, faces_dir, scan, can_write_cache)
           IN  /\ CatalogResult(r)
               /\ boot_pc' = IF r.raised THEN "raised" ELSE "ready"
    /\ UNCHANGED << threadVars, enrollVars, now, pipelineVars, writerVars, matchVars,
                    log_queue, ncalls, db_ok, rtsp_url, faces_dir,
                    can_mkdir, can_write_cache, writer_started, boot_cache >>

\* Line 273 and lines 241-242: run() starts frame_grabber and face_analyzer.
BootRun ==
    /\ boot_pc = "ready"
    /\ boot_pc' = "running"
    /\ UNCHANGED << threadVars, enrollVars, now, pipelineVars, catalogVars, writerVars, matchVars,
                    log_queue, ncalls, db_ok, rtsp_url, cache_file, faces_dir,
                    can_mkdir, can_write_cache, writer_started, boot_cache, built >>

\* _rebuild_database() run once more on the same tree.
RebuildAgain ==
    /\ boot_pc = "ready"
    /\ Len(built) < MaxRebuilds
    /\ \E scan \in Scans(faces_dir.entries) :
           LET r == rebuild_database(
                        [encodings |-> known_encodings, names |-> known_names],
                        cache_file, faces_dir, scan, can_write_cache)
           IN  /\ CatalogResult(r)
               /\ boot_pc' = IF r.raised THEN "raised" ELSE "ready"
    /\ UNCHANGED << threadVars, enrollVars, now, pipelineVars, writerVars, matchVars,
                    log_queue, ncalls, db_ok, rtsp_url, faces_dir,
                    can_mkdir, can_write_cache, writer_started, boot_cache >>

\* ManualEnrollmentApp.__init__ (enrollment.py lines 27-28): the counter is
\* 0, the entry empty, the button enabled; nothing written yet.
InitEnrollVars ==
    /\ e_entry = ""
    /\ e_count = 0
    /\ e_snap = "normal"
    /\ can_remove = TRUE
    /\ ref_written = {}

(* The enrollment tool, src/enrollment.py *)

NUM_PHOTOS_NEEDED == 5

\* The names the operator may type into name_entry ("" : nothing typed).
EntryTexts == {"", "alice", "bob"}

\* The user edits name_entry.
TypeName ==
    /\ \E text \in EntryTexts : e_entry' = text
    /\ UNCHANGED << now, pipelineVars, catalogVars, writerVars, matchVars,
                    log_queue, ncalls, db_ok, startupVars, threadVars,
                    e_count, e_snap, can_remove, ref_written >>

\* Lines 119-127: the cache file is removed if it is there and os.remove
\* succeeds; a failure is only reported in the message box.
RemoveCache(file, removable) ==
    IF file.kind # "absent" /\ removable THEN NoFile ELSE file

\* Line 118: the batch is complete.
BatchComplete(count) == count >= NUM_PHOTOS_NEEDED

\* take_photo (lines 85-130), the command of the enabled SNAP button.  ret
\* is what cap.read() returns, wrote whether cv2.imwrite stored the file.
take_photo ==
    /\ e_snap = "normal"
    /\ \E ret \in BOOLEAN, wrote \in BOOLEAN :
           IF e_entry = "" \/ ~ret
           THEN UNCHANGED << e_count, e_snap, ref_written, cache_file >>
           ELSE /\ ref_written' = IF wrote
                                  THEN ref_written \cup {<<e_entry, e_count>>}
                                  ELSE ref_written
                /\ e_count' = e_count + 1
                /\ IF BatchComplete(e_count + 1)
                   THEN /\ cache_file' = RemoveCache(cache_file, can_remove)
                        /\ e_snap' = "disabled"
                   ELSE /\ cache_file' = cache_file
                        /\ e_snap' = e_snap
    /\ UNCHANGED << now, pipelineVars, catalogVars, writerVars, matchVars,
                    log_queue, ncalls, db_ok, threadVars, e_entry, can_remove,
                    rtsp_url, faces_dir, can_mkdir, can_write_cache, boot_pc,
                    writer_started, boot_cache, built >>

\* reset_session (lines 140-146)
reset_session ==
    /\ e_count' = 0
    /\ e_snap' = "normal"
    /\ e_entry' = ""
    /\ UNCHANGED << now, pipelineVars, catalogVars, writerVars, matchVars,
                    log_queue, ncalls, db_ok, startupVars, threadVars,
                    can_remove, ref_written >>

\* Lines 88-93 and the threads of run(): nothing is set, nobody holds a
\* lock, each thread is at its first statement.
InitThreadVars ==
    /\ shutdown_event = FALSE
    /\ frame_lock = "free"
    /\ results_lock = "free"
    /\ g_pc = "open"
    /\ g_frame = NoFrame
    /\ g_fails = 0
    /\ a_results = EmptyResults
    /\ d_pc = "lock_frame"
    /\ display_frame = NoFrame
    /\ d_results = EmptyResults
    /\ published = {}

\* The state in which the process is started: any environment.
CacheFiles ==
    { NoFile, Garbage, Pickled({}, << >>, << >>),
      Pickled({"encodings"}, <<1>>, << >>),
      Pickled({"names"}, << >>, <<"alice">>),
      Dump(<<2, 1>>, <<"bob", "alice">>) }

InitStartup ==
    /\ InitPipeline
    /\ InitMatch
    /\ log_queue = << >>
    /\ ncalls = 0
    /\ w_pc = "get"
    /\ w_item = NoItem
    /\ table = << >>
    /\ attempts = << >>
    /\ db_ok \in BOOLEAN
    /\ known_encodings = << >>
    /\ known_names = << >>
    /\ rtsp_url \in {"", "rtsp://camera"}
    /\ cache_file \in CacheFiles
    /\ boot_cache = cache_file
    /\ faces_dir \in {NoDir} \cup {Dir(es) : es \in SUBSET RefEntries}
    /\ can_mkdir \in BOOLEAN
    /\ can_write_cache \in BOOLEAN
    /\ boot_pc = "config"
    /\ writer_started = FALSE
    /\ built = << >>
    /\ InitThreadVars
    /\ InitEnrollVars

NextStartup ==
    \/ BootConfig
    \/ BootDatabase
    \/ BootMakedirs
    \/ BootSignatures
    \/ BootRun
    \/ RebuildAgain

SpecStartup == InitStartup /\ [][NextStartup]_vars

\* The state of the startup variables once run() has started the threads.
InitStarted ==
    /\ rtsp_url = "rtsp://camera"
    /\ cache_file = Dump(<<1, 2>>, <<"alice", "bob">>)
    /\ boot_cache = cache_file
    /\ faces_dir = NoDir
    /\ can_mkdir = TRUE
    /\ can_write_cache = TRUE
    /\ boot_pc = "running"
    /\ writer_started = TRUE
    /\ built = << >>
    /\ InitThreadVars
    /\ InitEnrollVars

\* The pipeline's initial state: construction is over, the catalog holds
\* one signature of alice and one of bob.
Init ==
    /\ InitPipeline
    /\ InitLog
    /\ InitMatch
    /\ InitStarted
    /\ known_encodings = <<1, 2>>
    /\ known_names = <<"alice", "bob">>

-----------------------------------------------------------------------------
(* The three threads of run() statement by statement: frame_grabber (lines *)
(* 160-172), face_analyzer (lines 174-238) and the display loop (lines     *)
(* 244-266), with the two locks and the shutdown flag.                     *)

throttleVars == << last_seen, last_unknown_time, last_motion_time, evidence,
                  log_queue, ncalls >>

fixedVars == << now, db_ok, cycle, sightings, startupVars, catalogVars,
               writerVars, matchVars, enrollVars >>

grabberVars == << g_pc, g_frame, g_fails >>

analyzerVars == << an_pc, local_frame, avg_frame, a_results >>

displayVars == << d_pc, display_frame, d_results >>

\* Mutant: the grabber gives up after repeated failures.
MUT_GiveUpAfterFailures(fails) == IF fails >= MaxFails THEN "release" ELSE "backoff"

\* Where frame_grabber goes after a failed read (lines 167-171): always to
\* the release / sleep / reconnect branch, however many reads have failed.
AfterReadFailure(fails) == "backoff"

\* Mutant: after the poll sleep the analyzer goes on without testing the flag.
MUT_PollSkipsTest == "lock_frame"

\* Where face_analyzer goes after the no-frame poll (lines 183-185):
\* continue, that is the while test of line 176.
AfterPoll == "test"

\* Mutant: the analysis runs inside the with block of frame_lock.
MUT_AnalyzeUnderLock(frame) == IF frame = NoFrame THEN "unlock_frame" ELSE "analyze"

\* Where face_analyzer goes after the copy of line 181: the with block ends.
AfterCopy(frame) == "unlock_frame"

\* Mutant: only the locations are replaced; the names are written later.
MUT_WriteLocsFirst(old, new) == << new[1], old[2] >>

\* The value the assignment of lines 232 / 236 leaves in latest_results: the
\* new tuple, whatever was there.
WriteResults(old, new) == new

(* frame_grabber *)

\* Line 161: cap = cv2.VideoCapture(rtsp_url)
GrabberOpen ==
    /\ g_pc = "open"
    /\ g_pc' = "test"
    /\ UNCHANGED << fixedVars, throttleVars, analyzerVars, displayVars, g_frame,
                    g_fails, latest_frame, latest_results, shutdown_event,
                    frame_lock, results_lock, published >>

\* Line 162: while not self.shutdown_event.is_set()
GrabberTest ==
    /\ g_pc = "test"
    /\ g_pc' = IF shutdown_event THEN "release" ELSE "read"
    /\ UNCHANGED << fixedVars, throttleVars, analyzerVars, displayVars, g_frame,
                    g_fails, latest_frame, latest_results, shutdown_event,
                    frame_lock, results_lock, published >>

\* Lines 163-164, 167-168: ret, frame = cap.read()
GrabberRead(scenes) ==
    /\ g_pc = "read"
    /\ \/ \E k \in scenes :
              /\ g_frame' = Frame(k)
              /\ g_fails' = 0
              /\ g_pc' = "lock"
       \/ /\ g_frame' = NoFrame
          /\ g_fails' = IF g_fails < MaxFails THEN g_fails + 1 ELSE MaxFails
          /\ g_pc' = AfterReadFailure(g_fails')
    /\ UNCHANGED << fixedVars, throttleVars, analyzerVars, displayVars,
                    latest_frame, latest_results, shutdown_event,
                    frame_lock, results_lock, published >>

\* Line 165: with self.frame_lock (enter)
GrabberLock ==
    /\ g_pc = "lock"
    /\ frame_lock = "free"
    /\ frame_lock' = "grabber"
    /\ g_pc' = "store"
    /\ UNCHANGED << fixedVars, throttleVars, analyzerVars, displayVars, g_frame,
                    g_fails, latest_frame, latest_results, shutdown_event,
                    results_lock, published >>

\* Line 166: self.latest_frame = frame
GrabberStore ==
    /\ g_pc = "store"
    /\ latest_frame' = g_frame
    /\ g_pc' = "unlock"
    /\ UNCHANGED << fixedVars, throttleVars, analyzerVars, displayVars, g_frame,
                    g_fails, latest_results, shutdown_event,
                    frame_lock, results_lock, published >>

\* Line 166: with self.frame_lock (leave)
GrabberUnlock ==
    /\ g_pc = "unlock"
    /\ frame_lock' = "free"
    /\ g_pc' = "test"
    /\ UNCHANGED << fixedVars, throttleVars, analyzerVars, displayVars, g_frame,
                    g_fails, latest_frame, latest_results, shutdown_event,
                    results_lock, published >>

\* Lines 168-170: warning, cap.release(), time.sleep(5)
GrabberBackoff ==
    /\ g_pc = "backoff"
    /\ g_pc' = "reconnect"
    /\ UNCHANGED << fixedVars, throttleVars, analyzerVars, displayVars, g_frame,
                    g_fails, latest_frame, latest_results, shutdown_event,
                    frame_lock, results_lock, published >>

\* Line 171: cap = cv2.VideoCapture(rtsp_url), then back to the while test
GrabberReconnect ==
    /\ g_pc = "reconnect"
    /\ g_pc' = "test"
    /\ UNCHANGED << fixedVars, throttleVars, analyzerVars, displayVars, g_frame,
                    g_fails, latest_frame, latest_results, shutdown_event,
                    frame_lock, results_lock, published >>

\* Line 172: cap.release() after the loop; the thread ends
GrabberRelease ==
    /\ g_pc = "release"
    /\ g_pc' = "exit"
    /\ UNCHANGED << fixedVars, throttleVars, analyzerVars, displayVars, g_frame,
                    g_fails, latest_frame, latest_results, shutdown_event,
                    frame_lock, results_lock, published >>

Grabber(scenes) ==
    \/ GrabberOpen
    \/ GrabberTest
    \/ GrabberRead(scenes)
    \/ GrabberLock
    \/ GrabberStore
    \/ GrabberUnlock
    \/ GrabberBackoff
    \/ GrabberReconnect
    \/ GrabberRelease

(* face_analyzer *)

\* Line 176: while not self.shutdown_event.is_set()
AnTest ==
    /\ an_pc = "test"
    /\ an_pc' = IF shutdown_event THEN "exit" ELSE "lock_frame"
    /\ UNCHANGED << fixedVars, throttleVars, grabberVars, displayVars,
                    local_frame, avg_frame, a_results, latest_frame,
                    latest_results, shutdown_event, frame_lock, results_lock,
                    published >>

\* Lines 177-178: local_frame = None; with self.frame_lock (enter)
AnLockFrame ==
    /\ an_pc = "lock_frame"
    /\ frame_lock = "free"
    /\ frame_lock' = "analyzer"
    /\ local_frame' = NoFrame
    /\ an_pc' = "copy_frame"
    /\ UNCHANGED << fixedVars, throttleVars, grabberVars, displayVars,
                    avg_frame, a_results, latest_frame, latest_results,
                    shutdown_event, results_lock, published >>

\* Lines 179-181: if self.latest_frame is not None: local_frame = copy
AnCopyFrame ==
    /\ an_pc = "copy_frame"
    /\ local_frame' = latest_frame
    /\ an_pc' = AfterCopy(latest_frame)
    /\ UNCHANGED << fixedVars, throttleVars, grabberVars, displayVars,
                    avg_frame, a_results, latest_frame, latest_results,
                    shutdown_event, frame_lock, results_lock, published >>

\* Line 181: with self.frame_lock (leave); line 183: if local_frame is None
AnUnlockFrame ==
    /\ an_pc = "unlock_frame"
    /\ frame_lock' = "free"
    /\ an_pc' = IF local_frame = NoFrame THEN "poll" ELSE "analyze"
    /\ UNCHANGED << fixedVars, throttleVars, grabberVars, displayVars,
                    local_frame, avg_frame, a_results, latest_frame,
                    latest_results, shutdown_event, results_lock, published >>

\* Lines 184-185: time.sleep(0.1); continue
AnPoll ==
    /\ an_pc = "poll"
    /\ an_pc' = AfterPoll
    /\ UNCHANGED << fixedVars, throttleVars, grabberVars, displayVars,
                    local_frame, avg_frame, a_results, latest_frame,
                    latest_results, shutdown_event, frame_lock, results_lock,
                    published >>

\* Lines 187-191: the first frame initialises avg_frame; continue
AnFirst ==
    /\ an_pc = "analyze"
    /\ avg_frame = NoFrame
    /\ avg_frame' = Background
    /\ an_pc' = "test"
    /\ UNCHANGED << fixedVars, throttleVars, grabberVars, displayVars,
                    local_frame, a_results, latest_frame, latest_results,
                    shutdown_event, frame_lock, results_lock, published >>

\* Lines 193-229: motion found; detection, matching, throttle and capture.
\* The tuple of line 232 is ready to be written.
AnMotion(frames) ==
    /\ an_pc = "analyze"
    /\ avg_frame # NoFrame
    /\ \E faces \in frames, wrote \in BOOLEAN :
           LET st == ActiveBranch(faces, local_frame, now, wrote)
           IN  /\ last_seen' = st.seen
               /\ last_unknown_time' = st.unknown_time
               /\ last_motion_time' = st.motion_time
               /\ log_queue' = st.queue
               /\ ncalls' = st.calls
               /\ evidence' = st.files
               /\ a_results' = st.pubs[Len(st.pubs)]
    /\ avg_frame' = Background
    /\ an_pc' = "lock_results"
    /\ UNCHANGED << fixedVars, grabberVars, displayVars, local_frame,
                    latest_frame, latest_results, shutdown_event, frame_lock,
                    results_lock, published >>

\* Lines 193-199, 233-234: no motion; the empty pair is due after 3 seconds.
AnStill ==
    /\ an_pc = "analyze"
    /\ avg_frame # NoFrame
    /\ LET st == IdleBranch(now)
       IN  IF st.pubs = << >>
           THEN /\ an_pc' = "sleep"
                /\ a_results' = a_results
           ELSE /\ an_pc' = "lock_results"
                /\ a_results' = st.pubs[Len(st.pubs)]
    /\ avg_frame' = Background
    /\ UNCHANGED << fixedVars, throttleVars, grabberVars, displayVars,
                    local_frame, latest_frame, latest_results, shutdown_event,
                    frame_lock, results_lock, published >>

\* Lines 231, 235: with self.results_lock (enter)
AnLockResults ==
    /\ an_pc = "lock_results"
    /\ results_lock = "free"
    /\ results_lock' = "analyzer"
    /\ an_pc' = "publish"
    /\ UNCHANGED << fixedVars, throttleVars, grabberVars, displayVars,
                    local_frame, avg_frame, a_results, latest_frame,
                    latest_results, shutdown_event, frame_lock, published >>

\* Lines 232, 236: self.latest_results = (locs, current_names) / ([], [])
AnPublish ==
    /\ an_pc = "publish"
    /\ latest_results' = WriteResults(latest_results, a_results)
    /\ published' = published \cup {a_results}
    /\ an_pc' = "unlock_results"
    /\ UNCHANGED << fixedVars, throttleVars, grabberVars, displayVars,
                    local_frame, avg_frame, a_results, latest_frame,
                    shutdown_event, frame_lock, results_lock >>

\* Lines 232, 236: with self.results_lock (leave)
AnUnlockResults ==
    /\ an_pc = "unlock_results"
    /\ results_lock' = "free"
    /\ an_pc' = "sleep"
    /\ UNCHANGED << fixedVars, throttleVars, grabberVars, displayVars,
                    local_frame, avg_frame, a_results, latest_frame,
                    latest_results, shutdown_event, frame_lock, published >>

\* Line 238: time.sleep(0.01), then back to the while test
AnSleep ==
    /\ an_pc = "sleep"
    /\ an_pc' = "test"
    /\ UNCHANGED << fixedVars, throttleVars, grabberVars, displayVars,
                    local_frame, avg_frame, a_results, latest_frame,
                    latest_results, shutdown_event, frame_lock, results_lock,
                    published >>

Analyzer(frames) ==
    \/ AnTest
    \/ AnLockFrame
    \/ AnCopyFrame
    \/ AnUnlockFrame
    \/ AnPoll
    \/ AnFirst
    \/ AnMotion(frames)
    \/ AnStill
    \/ AnLockResults
    \/ AnPublish
    \/ AnUnlockResults
    \/ AnSleep

(* The display loop of run() *)

\* Lines 246-247: while True: with self.frame_lock (enter)
ShowLockFrame ==
    /\ d_pc = "lock_frame"
    /\ frame_lock = "free"
    /\ frame_lock' = "display"
    /\ d_pc' = "peek"
    /\ UNCHANGED << fixedVars, throttleVars, grabberVars, analyzerVars,
                    display_frame, d_results, latest_frame, latest_results,
                    shutdown_event, results_lock, published >>

\* Lines 248-249: if self.latest_frame is None: continue; else the copy
ShowPeek ==
    /\ d_pc = "peek"
    /\ display_frame' = latest_frame
    /\ d_pc' = "unlock_frame"
    /\ UNCHANGED << fixedVars, throttleVars, grabberVars, analyzerVars,
                    d_results, latest_frame, latest_results, shutdown_event,
                    frame_lock, results_lock, published >>

\* The with block of lines 247-249 is left, by continue or at its end.
ShowUnlockFrame ==
    /\ d_pc = "unlock_frame"
    /\ frame_lock' = "free"
    /\ d_pc' = IF display_frame = NoFrame THEN "lock_frame" ELSE "lock_results"
    /\ UNCHANGED << fixedVars, throttleVars, grabberVars, analyzerVars,
                    display_frame, d_results, latest_frame, latest_results,
                    shutdown_event, results_lock, published >>

\* Line 251: with self.results_lock (enter)
ShowLockResults ==
    /\ d_pc = "lock_results"
    /\ results_lock = "free"
    /\ results_lock' = "display"
    /\ d_pc' = "read"
    /\ UNCHANGED << fixedVars, throttleVars, grabberVars, analyzerVars,
                    display_frame, d_results, latest_frame, latest_results,
                    shutdown_event, frame_lock, published >>

\* Line 252: locs, names = self.latest_results
ShowRead ==
    /\ d_pc = "read"
    /\ d_results' = latest_results
    /\ d_pc' = "unlock_results"
    /\ UNCHANGED << fixedVars, throttleVars, grabberVars, analyzerVars,
                    display_frame, latest_frame, latest_results,
                    shutdown_event, frame_lock, results_lock, published >>

\* Line 252: with self.results_lock (leave)
ShowUnlockResults ==
    /\ d_pc = "unlock_results"
    /\ results_lock' = "free"
    /\ d_pc' = "draw"
    /\ UNCHANGED << fixedVars, throttleVars, grabberVars, analyzerVars,
                    display_frame, d_results, latest_frame, latest_results,
                    shutdown_event, frame_lock, published >>

\* Lines 254-262: draw the boxes, imshow, waitKey; 'q' (or an exception of
\* the drawing calls) leaves the loop.
ShowDraw ==
    /\ d_pc = "draw"
    /\ \E leave \in BOOLEAN : d_pc' = IF leave THEN "finally" ELSE "lock_frame"
    /\ UNCHANGED << fixedVars, throttleVars, grabberVars, analyzerVars,
                    display_frame, d_results, latest_frame, latest_results,
                    shutdown_event, frame_lock, results_lock, published >>

\* Lines 263-266: finally: self.shutdown_event.set()
ShowFinally ==
    /\ d_pc = "finally"
    /\ shutdown_event' = TRUE
    /\ d_pc' = "done"
    /\ UNCHANGED << fixedVars, throttleVars, grabberVars, analyzerVars,
                    display_frame, d_results, latest_frame, latest_results,
                    frame_lock, results_lock, published >>

\* KeyboardInterrupt anywhere in the try block of lines 245-262: a with
\* block that is being left releases its lock, then the finally clause runs.
ShowInterrupt ==
    /\ d_pc \notin {"finally", "done"}
    /\ frame_lock' = IF frame_lock = "display" THEN "free" ELSE frame_lock
    /\ results_lock' = IF results_lock = "display" THEN "free" ELSE results_lock
    /\ d_pc' = "finally"
    /\ UNCHANGED << fixedVars, throttleVars, grabberVars, analyzerVars,
                    display_frame, d_results, latest_frame, latest_results,
                    shutdown_event, published >>

Display ==
    \/ ShowInterrupt
    \/ ShowLockFrame
    \/ ShowPeek
    \/ ShowUnlockFrame
    \/ ShowLockResults
    \/ ShowRead
    \/ ShowUnlockResults
    \/ ShowDraw
    \/ ShowFinally

\* run() has started the two threads and entered its loop.
InitThreads ==
    /\ now = ClockStart
    /\ latest_frame = NoFrame
    /\ an_pc = "test"
    /\ local_frame = NoFrame
    /\ avg_frame = NoFrame
    /\ latest_results = EmptyResults
    /\ last_seen = EmptyDict
    /\ last_unknown_time = 0
    /\ last_motion_time = 0
    /\ evidence = {}
    /\ cycle = NoCycle
    /\ sightings = {}
    /\ InitLog
    /\ InitMatch
    /\ InitStarted
    /\ known_encodings = <<1, 2>>
    /\ known_names = <<"alice", "bob">>

ThreadFrames == {<< >>, <<FaceAlice>>, <<FaceFar>>}

NextThreads ==
    \/ Grabber({1})
    \/ Analyzer(ThreadFrames)
    \/ Display

SpecThreads == InitThreads /\ [][NextThreads]_vars

\* Every thread that can take a step is scheduled.
FairSpecThreads ==
    /\ SpecThreads
    /\ WF_vars(Grabber({1}))
    /\ WF_vars(Analyzer(ThreadFrames))
    /\ WF_vars(Display)

(* An enrollment session: the pipeline is not running; a cache built by an *)
(* earlier run of the pipeline may be there.                               *)

InitEnroll ==
    /\ InitPipeline
    /\ InitLog
    /\ InitMatch
    /\ InitThreadVars
    /\ known_encodings = << >>
    /\ known_names = << >>
    /\ rtsp_url = "rtsp://camera"
    /\ cache_file \in {NoFile, Dump(<<1, 2>>, <<"alice", "bob">>)}
    /\ boot_cache = cache_file
    /\ faces_dir = NoDir
    /\ can_mkdir = TRUE
    /\ can_write_cache = TRUE
    /\ boot_pc = "config"
    /\ writer_started = FALSE
    /\ built = << >>
    /\ e_entry = ""
    /\ e_count = 0
    /\ e_snap = "normal"
    /\ can_remove \in BOOLEAN
    /\ ref_written = {}

NextEnroll ==
    \/ TypeName
    \/ take_photo
    \/ reset_session

SpecEnroll == InitEnroll /\ [][NextEnroll]_vars

-----------------------------------------------------------------------------

(* The pipeline: clock, frame_grabber and face_analyzer.  log_queue is its *)
(* output; the writer thread that drains it is checked under SpecLog.      *)

Pipeline(instants, scenes, frames, watch) ==
    \/ Tick(instants)
    \/ GrabFrame(scenes)
    \/ GrabRetry
    \/ AnalyzerCopy
    \/ AnalyzerFirst
    \/ AnalyzerActive(frames, watch)
    \/ AnalyzerIdle

\* Sightings of known identities around the 30 s cooldown.
KnownInstants == {10, 29, 30, 31}

KnownFrames ==
    {<<FaceAlice>>, <<FaceAlice, FaceAlice>>, <<FaceBob>>, <<FaceAlice, FaceFar>>}

NextKnown == Pipeline(KnownInstants, {1}, KnownFrames, {"alice"})

SpecKnown == Init /\ [][NextKnown]_vars

\* Unknown faces around the 300 s capture cooldown.
UnknownInstants == {1, 300, 301}

UnknownFrames ==
    SeqsUpTo({FaceFar}, MaxFaces) \cup {<<FaceEdge>>, <<FaceAlice, FaceFar>>, <<FaceAlice>>}

NextUnknown == Pipeline(UnknownInstants, {1, 2}, UnknownFrames, {})

SpecUnknown == Init /\ [][NextUnknown]_vars

\* Motion and stillness around the 3 s window after which results are cleared.
MotionInstants == {1, 3, 4}

MotionFrames == {<< >>, <<FaceAlice>>, <<FaceAlice, FaceFar>>}

NextMotion == Pipeline(MotionInstants, {1}, MotionFrames, {})

SpecMotion == Init /\ [][NextMotion]_vars

(* The event log: callers of log_entry, the writer thread and the store.   *)

LogInstants == {1}

NextLog ==
    \/ Tick(LogInstants)
    \/ LogCall
    \/ WriterGet
    \/ WriterInsert
    \/ StoreFlip

SpecLog == Init /\ [][NextLog]_vars

\* The writer is a thread of its own: the scheduler lets it run.
FairSpecLog == SpecLog /\ WF_vars(WriterGet) /\ WF_vars(WriterInsert)

(* The matcher alone: any catalog, any encoding.                           *)

Catalogs ==
    {c \in [encodings : SeqsUpTo(SigIds, MaxSigs), names : SeqsUpTo(Names, MaxSigs)] :
        Len(c.encodings) = Len(c.names)}

InitMatcher ==
    /\ InitPipeline
    /\ InitLog
    /\ InitStarted
    /\ \E c \in Catalogs : known_encodings = c.encodings /\ known_names = c.names
    /\ probe \in [SigIds -> Dist]
    /\ assigned = None

Match ==
    /\ assigned = None
    /\ assigned' = Classify(known_encodings, known_names, probe)
    /\ UNCHANGED << otherVars, now, pipelineVars, catalogVars, writerVars, log_queue,
                    ncalls, db_ok, probe >>

SpecMatch == InitMatcher /\ [][Match]_vars

-----------------------------------------------------------------------------
(* Vocabulary of the properties *)

Range(seq) == {seq[i] : i \in DOMAIN seq}

\* The positions in q of the events with this name and status.
EventsOf(q, name, status) ==
    {i \in DOMAIN q : q[i].name = name /\ q[i].status = status}

\* A step of face_analyzer that analysed a frame and found motion in it.
ActiveStep ==
    /\ an_pc = "analyze"
    /\ avg_frame # NoFrame
    /\ an_pc' = "copy"
    /\ cycle'.kind = "active"

\* A step of face_analyzer that analysed a frame and found no motion in it.
IdleStep ==
    /\ an_pc = "analyze"
    /\ avg_frame # NoFrame
    /\ an_pc' = "copy"
    /\ cycle'.kind = "idle"

\* The seconds after the first clock reading at which name was sighted.
SightedAt(name) == {s[2] - ClockStart : s \in {x \in sightings : x[1] = name}}

-----------------------------------------------------------------------------
(* C1: a known identity's sighting enqueues a "Recognized" event iff the   *)
(* identity has no last_seen entry or more than log_cooldown = 30 seconds  *)
(* have passed since that entry; so two Recognized events of one name are  *)
(* more than 30 s apart, and sightings at 0, 10, 29 and 31 give exactly    *)
(* two events, at 0 and at 31.                                             *)

\* In an analysis step, a name seen in the frame gets exactly one event,
\* stamped now, when its cooldown has run out (or it has none), and no
\* event otherwise; a name not seen gets none.
C1_Step ==
    ActiveStep =>
        /\ log_queue' = log_queue \o cycle'.logs
        /\ \A n \in Names :
            LET sighted == n \in Range(cycle'.names)
                due == n \notin DOMAIN last_seen \/ now - last_seen[n] > 30
                new == EventsOf(cycle'.logs, n, "Recognized")
            IN  /\ Cardinality(new) = IF sighted /\ due THEN 1 ELSE 0
                /\ \A i \in new : cycle'.logs[i].timestamp = now

C1_Gap ==
    \A n \in Names : \A i, j \in EventsOf(log_queue, n, "Recognized") :
        i < j => log_queue[j].timestamp - log_queue[i].timestamp > 30

C1_Scenario ==
    SightedAt("alice") = {0, 10, 29, 31} =>
        /\ Cardinality(EventsOf(log_queue, "alice", "Recognized")) = 2
        /\ {log_queue[i].timestamp : i \in EventsOf(log_queue, "alice", "Recognized")}
              = {ClockStart, ClockStart + 31}

C1_Cooldown == [](C1_Gap /\ C1_Scenario) /\ [][C1_Step]_vars

C1_Witness ==
    /\ SightedAt("alice") = {0, 10, 29, 31}
    /\ cycle.kind = "active"
    /\ cycle.t = ClockStart + 31
    /\ Cardinality(EventsOf(cycle.logs, "alice", "Recognized")) = 1

-----------------------------------------------------------------------------
(* C2: last_seen[name] changes only in the step that enqueues a Recognized *)
(* event for that name; a sighting inside the cooldown window enqueues     *)
(* nothing and leaves last_seen, last_unknown_time and the queue as they   *)
(* were, so the window runs from the last event, not the last sighting.    *)

\* name's entry of last_seen is new or has another value after the step.
EntryChanged(name) ==
    /\ name \in DOMAIN last_seen'
    /\ name \notin DOMAIN last_seen \/ last_seen'[name] # last_seen[name]

\* Every face of the analysed frame is a known identity inside its window.
AllInsideWindow ==
    /\ cycle'.names # << >>
    /\ \A n \in Range(cycle'.names) :
          /\ n \in Names
          /\ n \in DOMAIN last_seen
          /\ now - last_seen[n] <= 30

C2_Step ==
    /\ DOMAIN last_seen \subseteq DOMAIN last_seen'
    /\ \A n \in Names :
          EntryChanged(n) =>
              /\ ActiveStep
              /\ last_seen'[n] = now
              /\ \E i \in EventsOf(cycle'.logs, n, "Recognized") :
                    cycle'.logs[i].timestamp = now
    /\ (ActiveStep /\ AllInsideWindow) =>
          /\ cycle'.logs = << >>
          /\ UNCHANGED << last_seen, last_unknown_time, log_queue, evidence >>

\* Every entry of last_seen is the time of that name's latest event.
C2_FromLastEvent ==
    \A n \in DOMAIN last_seen :
        /\ EventsOf(log_queue, n, "Recognized") # {}
        /\ \A i \in EventsOf(log_queue, n, "Recognized") :
              log_queue[i].timestamp <= last_seen[n]
        /\ \E i \in EventsOf(log_queue, n, "Recognized") :
              log_queue[i].timestamp = last_seen[n]

C2_EntryOnlyOnEvent == []C2_FromLastEvent /\ [][C2_Step]_vars

\* alice was sighted 29 s after her event, nothing was enqueued, and another
\* identity's capture time and her own entry are as they were.
C2_Witness ==
    /\ cycle.kind = "active"
    /\ "alice" \in Range(cycle.names)
    /\ cycle.logs = << >>
    /\ "alice" \in DOMAIN last_seen
    /\ cycle.t - last_seen["alice"] = 29
    /\ last_unknown_time > 0

-----------------------------------------------------------------------------
(* C3: in one analysis cycle, however many faces are "Unknown", at most    *)
(* one evidence image is written and at most one "Captured" event is       *)
(* enqueued.                                                               *)

\* The positions in q of the events with status "Captured".
Captures(q) == {i \in DOMAIN q : q[i].status = "Captured"}

\* The positions in names of the faces named "Unknown".
UnknownFaces(names) == {i \in DOMAIN names : names[i] = Unknown}

C3_Cycle ==
    /\ Len(cycle.imwrites) <= 1
    /\ Cardinality(Captures(cycle.logs)) <= 1

C3_Step ==
    /\ Cardinality(evidence' \ evidence) <= 1
    /\ Cardinality(Captures(log_queue')) <= Cardinality(Captures(log_queue)) + 1

C3_OneCapturePerCycle == []C3_Cycle /\ [][C3_Step]_vars

\* A cycle with two Unknown faces that wrote one image and one event.
C3_Witness ==
    /\ cycle.kind = "active"
    /\ Cardinality(UnknownFaces(cycle.names)) >= 2
    /\ Len(cycle.imwrites) = 1
    /\ cycle.imwrites[1].ok
    /\ Cardinality(Captures(cycle.logs)) = 1

-----------------------------------------------------------------------------
(* C4: a cycle captures iff it holds at least one "Unknown" face and more  *)
(* than 300 s have passed since last_unknown_time; a capture writes the    *)
(* full-resolution frame copied at the start of the cycle, enqueues one    *)
(* ("Unknown Stranger", "Captured") event and sets last_unknown_time to    *)
(* now; without a capture none of the three happens.  So two Captured      *)
(* events are more than 300 s apart.                                       *)

C4_Step ==
    IF ActiveStep
    THEN LET due == /\ UnknownFaces(cycle'.names) # {}
                    /\ now - last_unknown_time > 300
         IN  IF due
             THEN /\ Len(cycle'.imwrites) = 1
                  /\ cycle'.imwrites[1].image = local_frame
                  /\ local_frame.res = "full"
                  /\ evidence' = IF cycle'.imwrites[1].ok
                                 THEN evidence \cup {[name |-> now, image |-> local_frame]}
                                 ELSE evidence
                  /\ Cardinality(Captures(cycle'.logs)) = 1
                  /\ \A i \in Captures(cycle'.logs) :
                        /\ cycle'.logs[i].name = "Unknown Stranger"
                        /\ cycle'.logs[i].timestamp = now
                  /\ last_unknown_time' = now
             ELSE /\ cycle'.imwrites = << >>
                  /\ Captures(cycle'.logs) = {}
                  /\ UNCHANGED << evidence, last_unknown_time >>
    ELSE /\ UNCHANGED << evidence, last_unknown_time >>
         /\ Captures(log_queue') = Captures(log_queue)

C4_Gap ==
    \A i, j \in Captures(log_queue) :
        i < j => log_queue[j].timestamp - log_queue[i].timestamp > 300

C4_CaptureRule == []C4_Gap /\ [][C4_Step]_vars

\* The second capture, 301 s after the first, of a frame that the grabber
\* has meanwhile replaced in the slot.
C4_Witness ==
    /\ cycle.kind = "active"
    /\ cycle.t = ClockStart + 301
    /\ Len(cycle.imwrites) = 1
    /\ cycle.imwrites[1].ok
    /\ cycle.imwrites[1].image # latest_frame
    /\ [name |-> cycle.t, image |-> cycle.frame] \in evidence
    /\ Cardinality(Captures(log_queue)) = 2
    /\ last_unknown_time = cycle.t

-----------------------------------------------------------------------------
(* C5: the event log keeps submission order: of two events, the one whose  *)
(* log_entry call came first is taken off the queue and written first, so  *)
(* its row comes first in the detections table when both are stored.       *)

\* The call numbers of a sequence of items.
Calls(items) == [i \in DOMAIN items |-> items[i].call]

Increasing(nums) == \A i, j \in DOMAIN nums : i < j => nums[i] < nums[j]

\* The items of the INSERTs tried so far, then the one in the writer's hand.
Taken ==
    [i \in DOMAIN attempts |-> attempts[i].item]
        \o (IF w_item = NoItem THEN << >> ELSE <<w_item>>)

C5_SubmissionOrder ==
    /\ Increasing(Calls(Taken \o log_queue))
    /\ Increasing(Calls(table))

\* Three events were tried in order, the second failed, and the rows of the
\* first and the third are in the table in that order.
C5_Witness ==
    /\ Len(attempts) = 3
    /\ ~attempts[2].ok
    /\ Calls(table) = <<1, 3>>

-----------------------------------------------------------------------------
(* C6: a failed write stays inside the writer thread: log_entry neither    *)
(* raises nor blocks whatever the store and the queue are, the writer      *)
(* lives on after a failed write, and events enqueued after it are still   *)
(* taken off the queue and tried, and stored when the store is back.       *)

\* Call number n is on the queue.
Queued(n) == \E i \in DOMAIN log_queue : log_queue[i].call = n

\* The INSERT of call number n has been tried.
Tried(n) == \E i \in DOMAIN attempts : attempts[i].item.call = n

C6_Alive ==
    /\ w_pc \in {"get", "insert"}
    /\ ncalls < MaxCalls => ENABLED LogCall
    /\ (w_pc = "get" /\ log_queue # << >>) => ENABLED WriterGet
    /\ w_pc = "insert" => ENABLED WriterInsert

\* An INSERT tried while the store is available adds the row.
C6_Step ==
    (w_pc = "insert" /\ w_pc' # "insert" /\ db_ok) => table' = Append(table, w_item)

C6_FailureConfined ==
    /\ []C6_Alive
    /\ [][C6_Step]_vars
    /\ \A n \in 1..MaxCalls : Queued(n) ~> Tried(n)

\* An INSERT failed; an event enqueued later than that was tried and stored.
C6_Witness ==
    \E i, j \in DOMAIN attempts :
        /\ i < j
        /\ ~attempts[i].ok
        /\ attempts[j].ok
        /\ attempts[j].item.timestamp > attempts[i].at
        /\ \E k \in DOMAIN table : table[k] = attempts[j].item

-----------------------------------------------------------------------------
(* C7: delivery is at most once: an event leaves the queue once and gives  *)
(* at most one row; an event whose write failed is dropped, never put back *)
(* or retried; rows are only appended; so there are never more rows than   *)
(* log_entry calls.                                                        *)

\* The rows the successful INSERTs gave, in order.
RECURSIVE Stored(_)
Stored(tries) ==
    IF tries = << >> THEN << >>
    ELSE LET rest == Stored(SubSeq(tries, 1, Len(tries) - 1))
             last == tries[Len(tries)]
         IN  IF last.ok THEN Append(rest, last.item) ELSE rest

\* Every call made so far is in exactly one place: waiting on the queue, in
\* the writer's hand, or tried (once).
C7_OncePlace ==
    \A n \in 1..ncalls :
        Cardinality({i \in DOMAIN log_queue : log_queue[i].call = n})
          + Cardinality({i \in DOMAIN attempts : attempts[i].item.call = n})
          + (IF w_item.call = n THEN 1 ELSE 0) = 1

C7_State ==
    /\ C7_OncePlace
    /\ table = Stored(attempts)
    /\ Len(table) <= ncalls

C7_Step ==
    /\ table' = table \/ \E row \in {w_item} : table' = Append(table, row)
    /\ \A i \in DOMAIN attempts : i \in DOMAIN attempts' /\ attempts'[i] = attempts[i]

C7_AtMostOnce == []C7_State /\ [][C7_Step]_vars

\* An event's write failed and the writer is idle again: the event is in
\* no row and not on the queue, while a later event is stored.
C7_Witness ==
    /\ Len(attempts) = 2
    /\ ~attempts[1].ok
    /\ attempts[2].ok
    /\ w_pc = "get"
    /\ log_queue = << >>
    /\ Calls(table) = <<2>>

-----------------------------------------------------------------------------
(* C8 as stated: every iteration of face_analyzer that obtains a frame     *)
(* copy writes exactly one result set to latest_results, which replaces    *)
(* the previous value.                                                     *)

C8_Original ==
    cycle.kind \in {"first", "active", "idle"} =>
        /\ Len(cycle.pubs) = 1
        /\ latest_results = cycle.pubs[1]

(* C8 as amended: an iteration that obtains a frame copy writes            *)
(* latest_results at most once.  An iteration that finds motion writes     *)
(* once, that cycle's (locs, names), which replaces the previous value     *)
(* whole; a no-motion iteration more than 3 s after last_motion_time       *)
(* writes once, the empty pair; the first iteration and a no-motion        *)
(* iteration within 3 s write nothing and leave the value as it was.       *)

C8_Cycle ==
    /\ cycle.kind = "first" => cycle.pubs = << >>
    /\ cycle.kind = "active" =>
           /\ Len(cycle.pubs) = 1
           /\ latest_results = cycle.pubs[1]
           /\ latest_results[2] = cycle.names
           /\ Len(latest_results[1]) = Len(cycle.names)
    /\ cycle.kind = "idle" =>
           cycle.pubs = IF cycle.t - last_motion_time > ResultsClearAfter
                        THEN <<EmptyResults>> ELSE << >>
    /\ cycle.pubs = << >> => latest_results = cycle.before
    /\ cycle.pubs # << >> => latest_results = cycle.pubs[Len(cycle.pubs)]

\* Only an iteration that analyses a frame writes latest_results.
C8_Step == an_pc # "analyze" => latest_results' = latest_results

C8_OneResultSetPerWrite == []C8_Cycle /\ [][C8_Step]_vars

\* A motion cycle that saw one face replaced the two detections published
\* before it.
C8_Witness ==
    /\ cycle.kind = "active"
    /\ cycle.before[2] = <<"alice", Unknown>>
    /\ latest_results = << <<"box1">>, <<"alice">> >>

-----------------------------------------------------------------------------
(* C9: a no-motion cycle more than 3 seconds after the last motion leaves  *)
(* latest_results empty, ([], []); a no-motion cycle within 3 seconds of   *)
(* last_motion_time leaves the published results as they were.             *)

C9_Cleared ==
    (cycle.kind = "idle" /\ cycle.t - last_motion_time > ResultsClearAfter)
        => latest_results = EmptyResults

C9_Step ==
    IdleStep =>
        latest_results' = IF now - last_motion_time > ResultsClearAfter
                          THEN EmptyResults ELSE latest_results

C9_StaleResultsCleared == []C9_Cleared /\ [][C9_Step]_vars

\* Motion at one instant published detections; a no-motion cycle 4 seconds
\* later cleared them.
C9_Witness ==
    /\ cycle.kind = "idle"
    /\ cycle.t - last_motion_time = ResultsClearAfter + 1
    /\ cycle.before # EmptyResults
    /\ latest_results = EmptyResults

-----------------------------------------------------------------------------
(* C10: a face gets the name of the catalog entry at the smallest distance *)
(* (the first such entry on ties) iff that distance is strictly below 0.5; *)
(* at a smallest distance of exactly 0.5 or more, or with an empty         *)
(* catalog, it gets "Unknown".                                             *)

\* The distances of the probe to the catalog's entries, in catalog order.
ProbeDists == [i \in DOMAIN known_encodings |-> probe[known_encodings[i]]]

MinDist == CHOOSE d \in Range(ProbeDists) : \A e \in Range(ProbeDists) : d <= e

FirstAtMin ==
    CHOOSE i \in DOMAIN ProbeDists :
        /\ ProbeDists[i] = MinDist
        /\ \A j \in DOMAIN ProbeDists : ProbeDists[j] = MinDist => i <= j

C10_StrictThreshold ==
    assigned # None =>
        IF known_encodings = << >>
        THEN assigned = Unknown
        ELSE /\ MinDist < MatchThreshold => assigned = known_names[FirstAtMin]
             /\ MinDist >= MatchThreshold => assigned = Unknown

\* Two catalog entries of different names, both exactly at the threshold:
\* the face is Unknown.
C10_Witness ==
    /\ assigned = Unknown
    /\ Len(known_encodings) = 2
    /\ known_names[1] # known_names[2]
    /\ ProbeDists = <<MatchThreshold, MatchThreshold>>

-----------------------------------------------------------------------------
(* C11: a cache file that is present but does not load (bytes pickle       *)
(* cannot load, or a dict without one of the two keys) never aborts        *)
(* startup: the catalog is rebuilt from the reference tree and holds       *)
(* exactly the (signature, name) pairs of the tree, nothing of the cache.  *)

\* The cache file is there and the try block of lines 109-118 fails on it.
Corrupt(file) ==
    \/ file.kind = "garbage"
    \/ file.kind = "dict" /\ file.keys # {"encodings", "names"}

\* The (signature, name) pairs a scan of the reference tree gives.
TreePairs(dir) ==
    { <<e.sig, e.person>> : e \in {x \in dir.entries : x.isdir /\ x.image /\ x.sig # 0} }

\* The (signature, name) pairs of two index-aligned lists.
Pairs(encodings, names) ==
    { <<encodings[i], names[i]>> : i \in DOMAIN encodings \cap DOMAIN names }

\* __init__ got as far as _initialize_signatures, that call is over, and
\* the file system did not refuse the write of the cache.
SignaturesDone ==
    /\ rtsp_url # ""
    /\ can_mkdir
    /\ can_write_cache
    /\ boot_pc \in {"ready", "running", "raised"}

C11_CorruptCacheRebuilt ==
    (SignaturesDone /\ Corrupt(boot_cache)) =>
        /\ boot_pc # "raised"
        /\ Len(known_encodings) = Len(known_names)
        /\ Pairs(known_encodings, known_names) = TreePairs(faces_dir)

-----------------------------------------------------------------------------
(* C12: frame_grabber leaves its loop only when the shutdown flag is set:  *)
(* after any number of consecutive failed reads it releases, backs off and *)
(* reconnects again; it writes the latest-frame slot only after a          *)
(* successful read, under frame_lock, overwriting; it never waits for a    *)
(* consumer.                                                               *)

C12_State ==
    /\ g_pc \in {"release", "exit"} => shutdown_event
    /\ g_pc \in {"lock", "store", "unlock"} => g_frame # NoFrame
    /\ g_pc \in {"store", "unlock"} => frame_lock = "grabber"
    \* the only thing the grabber ever waits for is frame_lock
    /\ g_pc \notin {"exit", "lock"} => ENABLED Grabber({1})
    /\ (g_pc = "lock" /\ frame_lock = "free") => ENABLED GrabberLock

\* Only the store of line 166 changes the slot, whatever it held.
C12_Step ==
    latest_frame' # latest_frame =>
        /\ g_pc = "store"
        /\ frame_lock = "grabber"
        /\ latest_frame' = g_frame

C12_GrabberKeepsTrying ==
    /\ []C12_State
    /\ [][C12_Step]_vars
    /\ (g_pc = "backoff") ~> (g_pc = "read" \/ shutdown_event)

\* MaxFails reads in a row have failed and the grabber is reading again.
C12_Witness ==
    /\ g_fails = MaxFails
    /\ g_pc = "read"
    /\ ~shutdown_event

-----------------------------------------------------------------------------
(* C13: once the shutdown flag is set, frame_grabber and face_analyzer     *)
(* both come to an end; each starts an iteration only from its while test, *)
(* with the flag unset (also after the no-frame poll, the first-frame      *)
(* initialisation and the reconnect backoff), and starts none after it     *)
(* has seen the flag; the writer of the event log does not look at it.     *)

\* An iteration starts only from the while test, with the flag unset.
C13_Step ==
    /\ (g_pc' = "read" /\ g_pc # "read") => (g_pc = "test" /\ ~shutdown_event)
    /\ (an_pc' = "lock_frame" /\ an_pc # "lock_frame") =>
           (an_pc = "test" /\ ~shutdown_event)
    /\ (g_pc \in {"backoff", "reconnect", "unlock"} /\ g_pc' # g_pc) =>
           g_pc' \in {"reconnect", "test"}
    /\ (an_pc \in {"poll", "sleep"} /\ an_pc' # an_pc) => an_pc' = "test"
    /\ (an_pc = "analyze" /\ avg_frame = NoFrame /\ an_pc' # an_pc) => an_pc' = "test"
    \* a thread that saw the flag has ended for good
    /\ g_pc \in {"release", "exit"} => g_pc' \in {"release", "exit"}
    /\ an_pc = "exit" => an_pc' = "exit"

\* The writer's get is not held back by the flag.
C13_WriterUnaffected ==
    (shutdown_event /\ w_pc = "get" /\ log_queue # << >>) => ENABLED WriterGet

C13_ShutdownEndsLoops ==
    /\ [][C13_Step]_vars
    /\ []C13_WriterUnaffected
    /\ shutdown_event ~> (g_pc = "exit" /\ an_pc = "exit")

\* The stream never gave a frame: the grabber ended after its reconnect
\* branch and the analyzer after its no-frame poll.
C13_Witness ==
    /\ shutdown_event
    /\ g_pc = "exit"
    /\ an_pc = "exit"
    /\ latest_frame = NoFrame
    /\ g_fails = MaxFails


-----------------------------------------------------------------------------
(* C14: when the write of the evidence image fails during a capture, the   *)
(* failure is logged, the write is not tried again, the "Captured" event   *)
(* is enqueued all the same, and the analysis loop goes on to its next     *)
(* cycle.                                                                  *)

\* The last cycle handed an image to cv2.imwrite and the write failed.
WriteFailed == \E i \in DOMAIN cycle.imwrites : ~cycle.imwrites[i].ok

\* A log line that tells of a failure to write the evidence image: an
\* error or warning other than the line that says the face was saved.
FailureLogged ==
    \E i \in DOMAIN cycle.msgs :
        /\ cycle.msgs[i].level \in {"error", "warning"}
        /\ cycle.msgs[i].text # "SECURITY ALERT: Unknown face saved"

C14_WriteFailureLogged ==
    WriteFailed =>
        /\ FailureLogged
        /\ Len(cycle.imwrites) = 1
        /\ Cardinality(EventsOf(cycle.logs, "Unknown Stranger", "Captured")) = 1
        /\ an_pc = "copy"

-----------------------------------------------------------------------------
(* C15: a missing stream URL is fatal at construction: __init__ raises     *)
(* before the event store is created, the writer thread started and the    *)
(* catalog loaded or rebuilt, so no task ever runs; and it is the only     *)
(* error that keeps the system from starting.                              *)

C15_OnlyMissingUrlIsFatal ==
    /\ rtsp_url = "" =>
           /\ boot_pc \in {"config", "raised"}
           /\ ~writer_started
           /\ known_encodings = << >> /\ known_names = << >>
           /\ cache_file = boot_cache /\ built = << >>
    /\ boot_pc = "raised" => rtsp_url = ""

-----------------------------------------------------------------------------
(* C16: enrollment invalidates the cache: after any sequence of take_photo *)
(* and reset_session, with any names, in which at least one reference      *)
(* image was written, the cache file has been deleted; the tool never      *)
(* writes the cache file itself.                                           *)

C16_Deleted == ref_written # {} => cache_file = NoFile

\* The tool leaves the cache as it is or removes it.
C16_Step == cache_file' \in {cache_file, NoFile}

C16_EnrollmentInvalidatesCache == []C16_Deleted /\ [][C16_Step]_vars

-----------------------------------------------------------------------------
(* C17: catalog rebuild is idempotent: _rebuild_database run twice on an   *)
(* unchanged reference tree, the directory listings coming in any order,   *)
(* writes caches whose sets of (signature, name) pairs are equal.          *)

CachePairs(file) == Pairs(file.encodings, file.names)

C17_RebuildIdempotent ==
    \A i, j \in DOMAIN built :
        /\ built[i].keys = {"encodings", "names"}
        /\ Len(built[i].encodings) = Len(built[i].names)
        /\ CachePairs(built[i]) = CachePairs(built[j])
        /\ CachePairs(built[i]) = TreePairs(faces_dir)

\* Two rebuilds listed the tree in different orders: the caches differ as
\* lists and hold the same three pairs.
C17_Witness ==
    /\ Len(built) = 2
    /\ built[1] # built[2]
    /\ Cardinality(CachePairs(built[1])) = 3
    /\ faces_dir.entries = RefEntries

-----------------------------------------------------------------------------
(* C18: a thread that holds frame_lock or results_lock is only copying the *)
(* slot in or out: nobody sleeps, analyses, writes an image or enqueues an *)
(* event under a lock, and nobody holds both locks, so the three loops     *)
(* cannot deadlock on them.                                                *)

C18_LocksOnlyAroundCopies ==
    /\ frame_lock = "grabber" <=> g_pc \in {"store", "unlock"}
    /\ frame_lock = "analyzer" <=> an_pc \in {"copy_frame", "unlock_frame"}
    /\ frame_lock = "display" <=> d_pc \in {"peek", "unlock_frame"}
    /\ results_lock = "analyzer" <=> an_pc \in {"publish", "unlock_results"}
    /\ results_lock = "display" <=> d_pc \in {"read", "unlock_results"}
    /\ results_lock # "grabber"
    /\ frame_lock = "free" \/ frame_lock # results_lock
    \* whoever holds a lock can go on, so whoever waits for it is let in
    /\ frame_lock = "grabber" => ENABLED Grabber({1})
    /\ "analyzer" \in {frame_lock, results_lock} => ENABLED Analyzer(ThreadFrames)
    /\ (d_pc \in {"peek", "unlock_frame"} => ENABLED (ShowPeek \/ ShowUnlockFrame))
    /\ (d_pc \in {"read", "unlock_results"} => ENABLED (ShowRead \/ ShowUnlockResults))

\* Both locks are held, by different threads, and the third thread waits.
C18_Witness ==
    /\ frame_lock = "grabber"
    /\ results_lock = "analyzer"
    /\ d_pc = "lock_frame"
    /\ a_results # EmptyResults

-----------------------------------------------------------------------------
(* C20: whatever the interleaving of the analysis loop and the display     *)
(* loop, a value the display loop reads from latest_results is a pair      *)
(* (locations, names) written by one analysis cycle, or the initial empty  *)
(* pair, with components of equal length: never the locations of one       *)
(* cycle with the names of another.                                        *)

WholePair(value) ==
    /\ value \in published \cup {EmptyResults}
    /\ Len(value[1]) = Len(value[2])

C20_DisplayReadsWholePairs ==
    /\ WholePair(d_results)
    /\ WholePair(latest_results)
    /\ \A value \in published : Len(value[1]) = Len(value[2])

\* The display loop draws the pair of one cycle while the analyzer has
\* already published the pair of a later one.
C20_Witness ==
    /\ d_pc = "draw"
    /\ d_results = << <<"box1">>, <<"alice">> >>
    /\ latest_results = << <<"box4">>, <<Unknown>> >>

-----------------------------------------------------------------------------
(* C19: after _initialize_signatures has returned, whatever the cache file *)
(* (absent, unreadable, loadable with one of the two keys, loadable with   *)
(* both) and the reference directory (present or missing) were, the        *)
(* catalog is index-aligned: known_encodings and known_names have the same *)
(* length, so known_names[best_idx] is in range.                           *)

C19_CatalogAligned ==
    boot_pc \in {"ready", "running"} =>
        /\ Len(known_encodings) = Len(known_names)
        /\ known_encodings # << >> =>
               argmin(face_distance(known_encodings, EncNear(1, 0))) \in DOMAIN known_names

=============================================================================
